---- MODULE Spec2Model ----
(***************************************************************************)
(* Model of the MCP JSON-RPC dispatcher and its SSE transport              *)
(* (src/openfda_server.py): the process-wide MCPServer instance, the       *)
(* message handler MCPServer.handle_message, the tool handler              *)
(* MCPServer.get_drug_indications and the POST /sse generator              *)
(* generate_sse, run by several concurrent connections.                    *)
(*                                                                         *)
(* JSON values are records with a fixed set of fields; a member that is    *)
(* missing from a JSON object has the value Absent, JSON null / Python     *)
(* None is the value None.  The messages of a request body are drawn when  *)
(* the loop reaches them: the body is parsed as a whole (its validity is   *)
(* decided when the request arrives), but the content of a later message   *)
(* has no influence on the handling of an earlier one.                     *)
(***************************************************************************)
EXTENDS Integers, Sequences, FiniteSets, TLC

\* ---------------------------------------------------------------- bounds
\* Largest number of elements of a JSON array body.
MaxBatch == 2

\* Concurrent POST /sse connections.
Conns == {"A", "B"}

\* ----------------------------------------------------------- JSON values
Absent == "absent"
None == "None"

\* Values of the "id" member of the requests that are sent; the client of
\* each connection numbers its requests with an id of its own.
Ids == {"id1", "id2"}
ClientId(c) == IF c = "A" THEN "id1" ELSE "id2"

\* The method table of handle_message.
Methods == {"initialize", "notifications/initialized", "tools/list", "tools/call"}

\* arguments of a tools/call: kind is the JSON type of params.arguments,
\* drug_name the shape of arguments.drug_name ("nonstring": a number).
ArgumentsAbsent == [kind |-> Absent, drug_name |-> Absent]
ArgumentsNull == [kind |-> None, drug_name |-> Absent]
ArgumentsValues ==
    {ArgumentsNull} \cup [kind : {"dict"}, drug_name : {"aspirin", "  ", "nonstring"}]

\* params of a message: kind is the JSON type of the "params" member.
ParamsAbsent == [kind |-> Absent, name |-> Absent, arguments |-> ArgumentsAbsent]
ParamsNull == [kind |-> None, name |-> Absent, arguments |-> ArgumentsAbsent]
ClientParams == [kind |-> "dict", name |-> "client-1", arguments |-> ArgumentsAbsent]
CallParams ==
    [kind : {"dict"}, name : {"get_drug_indications"}, arguments : ArgumentsValues]
        \cup {[kind |-> "dict", name |-> "other_tool", arguments |-> ArgumentsAbsent]}

\* The element of a body that is valid JSON but not a JSON object.
NonObject == [isdict |-> FALSE, method |-> Absent, id |-> Absent, params |-> ParamsAbsent]
NoMessage == [isdict |-> FALSE, method |-> "nothing", id |-> Absent, params |-> ParamsAbsent]

\* The JSON objects that are sent as messages, with and without an id.
ObjectMessages ==
    [isdict : {TRUE}, method : {"initialize"}, id : Ids \cup {Absent},
     params : {ParamsAbsent, ClientParams}]
    \cup [isdict : {TRUE},
          method : {"notifications/initialized", "tools/list", "resources/list"},
          id : Ids \cup {Absent}, params : {ParamsAbsent}]
    \cup [isdict : {TRUE}, method : {"tools/call"}, id : Ids \cup {Absent},
          params : CallParams \cup {ParamsAbsent, ParamsNull}]

JsonValues == ObjectMessages \cup {NonObject}

\* ------------------------------------------------------ response objects
NoResult == [kind |-> "none", protocolVersion |-> "", capabilities |-> {},
             serverInfo |-> "", tools |-> <<>>, text |-> ""]

\* A JSON-RPC envelope; members is the set of its member names.
Response(id, result) ==
    [kind |-> "response", members |-> {"jsonrpc", "id", "result"},
     id |-> id, code |-> 0, result |-> result]
ErrorResponse(id, code) ==
    [kind |-> "response", members |-> {"jsonrpc", "id", "error"},
     id |-> id, code |-> code, result |-> NoResult]
ErrorNoId(code) ==
    [kind |-> "response", members |-> {"jsonrpc", "error"},
     id |-> Absent, code |-> code, result |-> NoResult]
\* Python None returned by handle_message.
ResponseNone ==
    [kind |-> "None", members |-> {}, id |-> Absent, code |-> 0, result |-> NoResult]
Ack == [kind |-> "ack", members |-> {"type"}, id |-> Absent, code |-> 0, result |-> NoResult]
Ping == [kind |-> "ping", members |-> {"type"}, id |-> Absent, code |-> 0, result |-> NoResult]
NoFrame == [kind |-> "nothing", members |-> {}, id |-> Absent, code |-> 0, result |-> NoResult]

\* ------------------------------------------------------------- MCPServer
get_server_info == "openfda-mcp-server/1.0.0"

\* {"tools": {}}: the set of capability names, each with an empty object.
get_capabilities == {"tools"}

\* Mutant: the tool list is published only once the channel is initialized.
get_tools_gated(self) ==
    IF self.initialized
    THEN << [name |-> "get_drug_indications",
             properties |-> {"drug_name", "limit", "exact_match"},
             required |-> <<"drug_name">>] >>
    ELSE << >>

get_tools(self) ==
    << [name |-> "get_drug_indications",
        properties |-> {"drug_name", "limit", "exact_match"},
        required |-> <<"drug_name">>] >>

\* dict.get(key, default) on the "id" member: None when the member is missing.
get_id(message) == IF message.id = Absent THEN None ELSE message.id

\* message.get("params", {}): the empty object when the member is missing.
get_params(message) ==
    IF message.params.kind = Absent
    THEN [kind |-> "dict", name |-> Absent, arguments |-> ArgumentsAbsent]
    ELSE message.params

Content(text) ==
    [kind |-> "content", protocolVersion |-> "", capabilities |-> {},
     serverInfo |-> "", tools |-> <<>>, text |-> text]

\* get_drug_indications up to its first suspension: "raise" when
\* arguments.get or .strip() fails (before the try), "return" for an empty
\* drug name, "await" when the upstream request is sent.
get_drug_indications_start(arguments) ==
    IF arguments.kind = None THEN [outcome |-> "raise", result |-> NoResult]
    ELSE IF arguments.drug_name = "nonstring" THEN [outcome |-> "raise", result |-> NoResult]
    ELSE IF arguments.drug_name \in {Absent, "  "}
         THEN [outcome |-> "return", result |-> Content("Error: drug_name parameter is required")]
    ELSE [outcome |-> "await", result |-> NoResult]

\* What the upstream can answer to one GET.
UpstreamOutcomes == {"results", "no_results", "status_404", "status_500", "timeout"}

\* get_drug_indications after the upstream answered.
get_drug_indications_finish(arguments, upstream) ==
    IF upstream = "results" THEN Content("Found FDA drug label(s)")
    ELSE IF upstream = "no_results" THEN Content("No FDA labeling data found")
    ELSE Content("Error: upstream")

InitializeResult ==
    [kind |-> "initialize", protocolVersion |-> "2024-11-05",
     capabilities |-> get_capabilities, serverInfo |-> get_server_info,
     tools |-> <<>>, text |-> ""]

ToolsResult(self) ==
    [kind |-> "tools", protocolVersion |-> "", capabilities |-> {},
     serverInfo |-> "", tools |-> get_tools(self), text |-> ""]

\* The server states an MCPServer object can be in.
ServerStates ==
    [initialized : BOOLEAN,
     client_info : {[kind |-> None, name |-> Absent, arguments |-> ArgumentsAbsent],
                    [kind |-> "dict", name |-> Absent, arguments |-> ArgumentsAbsent],
                    ClientParams}]

\* Mutant: the internal-error response loses the id of the message.
handle_exception_noid(self, message) ==
    IF message.isdict
    THEN [outcome |-> "return", response |-> ErrorNoId(-32603), self |-> self]
    ELSE [outcome |-> "raise", response |-> ResponseNone, self |-> self]

\* The except clause of handle_message: message.get("id") is evaluated
\* again, and raises again when the message is not a JSON object.
handle_exception(self, message) ==
    IF message.isdict
    THEN [outcome |-> "return", response |-> ErrorResponse(get_id(message), -32603),
          self |-> self]
    ELSE [outcome |-> "raise", response |-> ResponseNone, self |-> self]

\* Mutant: a second initialize is refused.
handle_initialize_once(self, message) ==
    IF self.initialized
    THEN [outcome |-> "return", response |-> ErrorResponse(get_id(message), -32600),
          self |-> self]
    ELSE [outcome |-> "return", response |-> Response(get_id(message), InitializeResult),
          self |-> [initialized |-> TRUE, client_info |-> get_params(message)]]

\* Mutant: initialize flips the flag instead of setting it.
handle_initialize_toggle(self, message) ==
    [outcome |-> "return", response |-> Response(get_id(message), InitializeResult),
     self |-> [initialized |-> ~self.initialized, client_info |-> get_params(message)]]

\* initialize branch of handle_message.
handle_initialize(self, message) ==
    [outcome |-> "return", response |-> Response(get_id(message), InitializeResult),
     self |-> [initialized |-> TRUE, client_info |-> get_params(message)]]

\* Mutant: the error for an unknown method carries a null id.
method_not_found_nullid(self, message) ==
    [outcome |-> "return", response |-> ErrorResponse(None, -32601), self |-> self]

\* else branch of handle_message: the method is not in the table.
method_not_found(self, message) ==
    [outcome |-> "return", response |-> ErrorResponse(get_id(message), -32601),
     self |-> self]

\* else branch of tools/call: the tool is not registered.
unknown_tool(self, message) ==
    [outcome |-> "return", response |-> ErrorResponse(get_id(message), -32601),
     self |-> self]

\* tools/call branch of handle_message, up to the first suspension.
handle_tools_call(self, message) ==
    LET params == get_params(message)
        msg_id == get_id(message)
    IN  IF params.kind # "dict" THEN handle_exception(self, message)
        ELSE IF params.name = "get_drug_indications"
        THEN LET g == get_drug_indications_start(params.arguments)
             IN  IF g.outcome = "raise" THEN handle_exception(self, message)
                 ELSE IF g.outcome = "return"
                 THEN [outcome |-> "return", response |-> Response(msg_id, g.result),
                       self |-> self]
                 ELSE [outcome |-> "await", response |-> ResponseNone, self |-> self]
        ELSE unknown_tool(self, message)

\* handle_message up to its return, its escaping exception ("raise") or its
\* suspension on the upstream request ("await"); self is the MCPServer
\* state it leaves.
handle_message(self, message) ==
    IF ~message.isdict THEN handle_exception(self, message)
    ELSE LET method == message.method
             msg_id == get_id(message)
         IN  IF method = "initialize"
             THEN handle_initialize(self, message)
             ELSE IF method = "notifications/initialized"
             THEN [outcome |-> "return", response |-> ResponseNone, self |-> self]
             ELSE IF method = "tools/list"
             THEN [outcome |-> "return", response |-> Response(msg_id, ToolsResult(self)),
                   self |-> self]
             ELSE IF method = "tools/call"
             THEN handle_tools_call(self, message)
             ELSE method_not_found(self, message)

\* handle_message resumed when the upstream answered: the tool result is
\* wrapped under the id of the message.
handle_message_resume(message, upstream) ==
    Response(get_id(message),
             get_drug_indications_finish(get_params(message).arguments, upstream))

\* ------------------------------------------------- strings and NDC codes
\* (src/openfda_mcp_server.py)  A Python str is the sequence of its
\* characters; None, where a str is optional, is the one-element sequence
\* NoneStr, which is no string of characters.
NoneStr == <<"None">>

\* Longest raw NDC input that is enumerated exhaustively.
MaxNdcLen == 3

\* The characters of the enumerated inputs: a digit, the hyphen, a blank
\* and a letter.
NdcAlphabet == {"1", "-", " ", "a"}

Digits == {"0", "1", "2", "3", "4", "5", "6", "7", "8", "9"}

IsDigit(ch) == ch \in Digits

\* "0002-1433-80" and further codes around the lengths the code tests.
SampleNdcs ==
    { <<"0","0","0","2","-","1","4","3","3","-","8","0">>,
      <<"1","2","3","4","5","6","7","8","9","0">>,
      <<" ","1","2","3","4","5","6","7","8","9","0"," ">>,
      <<"1","2","3","4","5","6","7","8","9","0","1">>,
      <<"1","2","3","4","5","-","6","7","8","9","-","0","1">>,
      <<"1","2","3","4","5","6","7","8","9">>,
      <<"1","2","3","4","-","5","6","7","-","8","9">>,
      <<"1","2","3","4","-","5","6","7","-","8">>,
      <<"1","2","3","4","5","6","7","8","9","0","1","2">>,
      <<"1","2","3","4","5","-","6","7","8","9","-","0","1","2">> }

\* The raw inputs _normalize_ndc is applied to.
NdcInputs ==
    UNION {[1..n -> NdcAlphabet] : n \in 0..MaxNdcLen} \cup SampleNdcs

\* str.strip(): the string without its leading and trailing blanks.
strip(s) ==
    LET keep == {i \in 1..Len(s) : s[i] # " "}
    IN  IF keep = {} THEN << >>
        ELSE SubSeq(s, CHOOSE i \in keep : \A j \in keep : i <= j,
                       CHOOSE i \in keep : \A j \in keep : j <= i)

\* re.sub(r'[^\d]', '', s): the digits of s, in order.
digits_only(s) == SelectSeq(s, IsDigit)

\* '-' in s
has_hyphen(s) == \E i \in 1..Len(s) : s[i] = "-"

\* f"{clean[:5]}-{clean[5:9]}-{clean[9:]}"
\* Mutant: the middle segment is cut after three digits.
hyphenate_5_3(clean) ==
    SubSeq(clean, 1, 5) \o <<"-">> \o SubSeq(clean, 6, 8) \o <<"-">>
        \o SubSeq(clean, 9, Len(clean))

hyphenate_5_4(clean) ==
    SubSeq(clean, 1, 5) \o <<"-">> \o SubSeq(clean, 6, 9) \o <<"-">>
        \o SubSeq(clean, 10, Len(clean))

\* list(dict.fromkeys(formats)): first occurrences, in insertion order.
RECURSIVE unique(_)
unique(formats) ==
    IF formats = << >> THEN << >>
    ELSE LET front == unique(SubSeq(formats, 1, Len(formats) - 1))
             last == formats[Len(formats)]
         IN  IF \E i \in 1..Len(front) : front[i] = last
             THEN front ELSE Append(front, last)

\* formats[:3]
first3(formats) == SubSeq(formats, 1, IF Len(formats) < 3 THEN Len(formats) ELSE 3)

\* Mutant: every code of ten digits or more without hyphens is hyphenated.
ndc_formats_from10(ndc_input) ==
    LET stripped == strip(ndc_input)
        clean_ndc == digits_only(stripped)
    IN  IF has_hyphen(stripped)
        THEN IF Len(clean_ndc) >= 9 THEN <<stripped, clean_ndc>> ELSE <<stripped>>
        ELSE IF Len(clean_ndc) >= 10
             THEN <<stripped, hyphenate_5_4(clean_ndc)>>
             ELSE <<stripped>>

\* The list formats of _normalize_ndc before it is deduplicated, for an
\* input that is not empty.
ndc_formats(ndc_input) ==
    LET stripped == strip(ndc_input)
        clean_ndc == digits_only(stripped)
    IN  IF has_hyphen(stripped)
        THEN IF Len(clean_ndc) >= 9 THEN <<stripped, clean_ndc>> ELSE <<stripped>>
        ELSE IF Len(clean_ndc) = 10 \/ Len(clean_ndc) = 11
             THEN <<stripped, hyphenate_5_4(clean_ndc)>>
             ELSE <<stripped>>

\* Mutant: the broad policy, every layout of a 10 or 11 digit code, and no
\* cut to three candidates.
_normalize_ndc_broad(ndc_input) ==
    IF ndc_input = << >> \/ ndc_input = NoneStr THEN << >>
    ELSE LET stripped == strip(ndc_input)
             c == digits_only(stripped)
             lay(a, b) == SubSeq(c, 1, a) \o <<"-">> \o SubSeq(c, a + 1, a + b)
                            \o <<"-">> \o SubSeq(c, a + b + 1, Len(c))
         IN  IF Len(c) = 10
             THEN unique(<<stripped, c, lay(4, 3), lay(5, 3), lay(5, 2)>>)
             ELSE IF Len(c) = 11
             THEN unique(<<stripped, c, lay(5, 4), lay(5, 3), lay(4, 4)>>)
             ELSE <<stripped>>

\* Mutant: the input is not stripped.
_normalize_ndc_unstripped(ndc_input) ==
    IF ndc_input = << >> \/ ndc_input = NoneStr THEN << >>
    ELSE first3(unique(<<ndc_input>> \o Tail(ndc_formats(ndc_input))))

_normalize_ndc(ndc_input) ==
    IF ndc_input = << >> \/ ndc_input = NoneStr THEN << >>
    ELSE first3(unique(ndc_formats(ndc_input)))

\* ------------------------------------------------------- search queries
\* A search expression is the sequence of its AND-joined parts; a part is
\* the sequence of its OR-joined atoms, parenthesized or not; an atom is
\* field:"value" or field.exact:"value".
Atom(field, exact, value) == [field |-> field, exact |-> exact, value |-> value]

\* "*:*"
Wildcard == << [paren |-> FALSE, atoms |-> << Atom("*", FALSE, <<"*">>) >>] >>

\* Truth value of an Optional[str]: None and "" are false.
truthy(s) == s # NoneStr /\ s # << >>

DrugFields == <<"openfda.brand_name", "openfda.generic_name", "openfda.substance_name">>

\* drug_query: the three fields, OR-joined, in parentheses.
drug_clause(drug, exact) ==
    [paren |-> TRUE, atoms |-> [i \in 1..3 |-> Atom(DrugFields[i], exact, drug)]]

\* One unparenthesized atom field:"value".
simple_filter(field, value) ==
    [paren |-> FALSE, atoms |-> << Atom(field, FALSE, value) >>]

\* The manufacturer, dosage form and route atoms that are present, in order.
additional_filters(manufacturer, dosage_form, route) ==
    (IF truthy(manufacturer)
     THEN << simple_filter("openfda.manufacturer_name", manufacturer) >> ELSE << >>)
    \o (IF truthy(dosage_form)
        THEN << simple_filter("openfda.dosage_form", dosage_form) >> ELSE << >>)
    \o (IF truthy(route)
        THEN << simple_filter("openfda.route", route) >> ELSE << >>)

\* ndc_query: one atom for each candidate, OR-joined, in parentheses.
ndc_clause(ndc_formats_list) ==
    [paren |-> TRUE,
     atoms |-> [i \in 1..Len(ndc_formats_list) |->
                   Atom("openfda.product_ndc", FALSE, ndc_formats_list[i])]]

\* Mutant: with an NDC filter the drug name is dropped.
ndc_search_without_drug(drug, manufacturer, dosage_form, route, ndc_formats_list, exact) ==
    << ndc_clause(ndc_formats_list) >>
        \o additional_filters(manufacturer, dosage_form, route)

\* _build_search when ndc has candidates.
ndc_search(drug, manufacturer, dosage_form, route, ndc_formats_list, exact) ==
    LET additional == additional_filters(manufacturer, dosage_form, route)
    IN  IF additional = << >> /\ ~truthy(drug)
        THEN << ndc_clause(ndc_formats_list) >>
        ELSE << ndc_clause(ndc_formats_list) >>
                \o (IF truthy(drug) THEN << drug_clause(drug, exact) >> ELSE << >>)
                \o additional

\* Mutant: no fallback when there is no filter at all.
non_ndc_search_no_wildcard(drug, manufacturer, dosage_form, route, exact) ==
    (IF truthy(drug) THEN << drug_clause(drug, exact) >> ELSE << >>)
        \o additional_filters(manufacturer, dosage_form, route)

\* _build_search without NDC candidates.
non_ndc_search(drug, manufacturer, dosage_form, route, exact) ==
    LET query_parts ==
            (IF truthy(drug) THEN << drug_clause(drug, exact) >> ELSE << >>)
                \o additional_filters(manufacturer, dosage_form, route)
    IN  IF query_parts # << >> THEN query_parts ELSE Wildcard

_build_search(drug, manufacturer, dosage_form, route, ndc, exact) ==
    IF truthy(ndc) /\ _normalize_ndc(ndc) # << >>
    THEN ndc_search(drug, manufacturer, dosage_form, route, _normalize_ndc(ndc), exact)
    ELSE non_ndc_search(drug, manufacturer, dosage_form, route, exact)

\* Mutant: the substance name is not searched.
mcp_search_query_two_fields(drug_name, exact_match) ==
    << [paren |-> FALSE,
        atoms |-> << Atom("openfda.brand_name", exact_match, drug_name),
                     Atom("openfda.generic_name", exact_match, drug_name) >>] >>

\* search_query of MCPServer.get_drug_indications, on the stripped name.
mcp_search_query(drug_name, exact_match) ==
    IF exact_match
    THEN << [paren |-> FALSE,
             atoms |-> << Atom("openfda.brand_name", TRUE, drug_name),
                          Atom("openfda.generic_name", TRUE, drug_name) >>] >>
    ELSE << [paren |-> FALSE,
             atoms |-> [i \in 1..3 |-> Atom(DrugFields[i], FALSE, drug_name)]] >>

\* ---------------------------------------------------------- tool handlers
\* The limit a call without one gets, and the ends of the clamp.
DefaultLimit == 3
MinLimit == 1
MaxLimit == 10

\* How far the limit arguments reach below MinLimit and above MaxLimit.
LimitSpread == 2

\* The limit argument: missing, or an integer.
LimitArgs ==
    {[given |-> FALSE, value |-> 0]}
        \cup [given : {TRUE}, value : (MinLimit - 1 - LimitSpread)..(MaxLimit + LimitSpread)]

\* limit: int = 3, arguments.get("limit", 3)
limit_of(arg) == IF arg.given THEN arg.value ELSE DefaultLimit

min2(a, b) == IF a < b THEN a ELSE b
max2(a, b) == IF a > b THEN a ELSE b

\* max(1, min(limit, 10)) of the FastMCP tools.
clamp_limit(limit) == max2(MinLimit, min2(limit, MaxLimit))

\* min(limit, 10) of MCPServer.get_drug_indications.
mcp_limit(limit) == min2(limit, MaxLimit)

Aspirin == <<"a","s","p">>
PaddedAspirin == <<" ","a","s","p"," ">>
Bayer == <<"B","a","y">>
Tablet == <<"T","A","B">>
Oral == <<"O","R","A","L">>

\* The tools: the two kinds of FastMCP tool and the tool of MCPServer.
FastMcpTools == {"get_drug_indications", "make_simple_tool.tool"}
McpServerTool == "MCPServer.get_drug_indications"

\* The arguments the tools are invoked with.
FastMcpArgs ==
    [drug_name : {NoneStr, << >>, Aspirin},
     manufacturer : {NoneStr, Bayer},
     dosage_form : {NoneStr, Tablet},
     route : {NoneStr, Oral},
     ndc : {NoneStr, << >>, <<" ">>, <<"0","0","0","2","-","1","4","3","3","-","8","0">>},
     limit : LimitArgs,
     exact_match : BOOLEAN]

\* MCPServer.get_drug_indications reads drug_name, limit and exact_match;
\* a missing drug_name is "".
McpServerArgs ==
    [drug_name : {<< >>, Aspirin, PaddedAspirin},
     manufacturer : {NoneStr}, dosage_form : {NoneStr}, route : {NoneStr},
     ndc : {NoneStr},
     limit : LimitArgs,
     exact_match : BOOLEAN]

NoRequest == [sent |-> FALSE, search |-> << >>, limit |-> 0]

\* params of the GET a FastMCP tool sends.
fastmcp_params(a) ==
    [sent |-> TRUE,
     search |-> _build_search(a.drug_name, a.manufacturer, a.dosage_form, a.route,
                              a.ndc, a.exact_match),
     limit |-> clamp_limit(limit_of(a.limit))]

\* params of the GET MCPServer.get_drug_indications sends.
mcp_params(a) ==
    [sent |-> TRUE,
     search |-> mcp_search_query(strip(a.drug_name), a.exact_match),
     limit |-> mcp_limit(limit_of(a.limit))]

\* _fetch_openfda_with_logging and the rest of a FastMCP tool: the list of
\* records, the empty list, or the exception of raise_for_status / timeout.
fetch_openfda(upstream) ==
    IF upstream = "results" THEN "records"
    ELSE IF upstream \in {"no_results", "status_404"} THEN "empty_list"
    ELSE "raised"

\* ----------------------------------------------------------------- state
VARIABLES
    mcp_server,   \* the global MCPServer: [initialized, client_info]
    pc,           \* per connection: "idle", "loop", "upstream", "done"
    body,         \* per connection: the kind of request body received
    messages_len, \* per connection: len(messages) after parsing
    pos,          \* per connection: number of messages taken by the loop
    pending,      \* per connection: the message whose handling is suspended
    frame,        \* per connection: the chunk the generator is yielding
    nframes,      \* per connection: number of chunks yielded
    npc,          \* _normalize_ndc: "off", "input", "normalized", "again"
    ndc_input,    \* the raw input of _normalize_ndc
    formats,      \* the list _normalize_ndc returned for ndc_input
    again,        \* the list it returned for the first candidate of formats
    tpc,          \* tool call: "off", "idle", "awaiting", "returned"
    tcall,        \* the tool invoked and its arguments
    request,      \* the params of the GET sent upstream
    tstatus,      \* what the upstream answered
    tresult,      \* what the tool returned
    gpc,          \* per GET stream: "off", "idle", "sleeping", "closed"
    gi,           \* per GET stream: the loop variable i
    gframes       \* per GET stream: the chunks yielded so far

server_vars == <<mcp_server, pc, body, messages_len, pos, pending, frame, nframes>>
ndc_vars == <<npc, ndc_input, formats, again>>
tool_vars == <<tpc, tcall, request, tstatus, tresult>>
get_vars == <<gpc, gi, gframes>>
vars == <<server_vars, ndc_vars, tool_vars, get_vars>>

\* client_info = None
NoClientInfo == [kind |-> None, name |-> Absent, arguments |-> ArgumentsAbsent]

\* MCPServer.__init__
MCPServer == [initialized |-> FALSE, client_info |-> NoClientInfo]

\* No call of _normalize_ndc is under way.
NdcOff ==
    /\ npc = "off"
    /\ ndc_input = << >>
    /\ formats = << >>
    /\ again = << >>

NoCall == [tool |-> "none", args |-> CHOOSE a \in McpServerArgs : TRUE]

\* No tool call is under way.
ToolsOff ==
    /\ tpc = "off"
    /\ tcall = NoCall
    /\ request = NoRequest
    /\ tstatus = "none"
    /\ tresult = "none"

\* The clients that GET /sse.
GetConns == {"G1", "G2"}

\* No GET stream is open.
GetOff ==
    /\ gpc = [g \in GetConns |-> "off"]
    /\ gi = [g \in GetConns |-> 0]
    /\ gframes = [g \in GetConns |-> << >>]

ServerInit ==
    /\ mcp_server = MCPServer
    /\ pc = [c \in Conns |-> "idle"]
    /\ body = [c \in Conns |-> "none"]
    /\ messages_len = [c \in Conns |-> 0]
    /\ pos = [c \in Conns |-> 0]
    /\ pending = [c \in Conns |-> NoMessage]
    /\ frame = [c \in Conns |-> NoFrame]
    /\ nframes = [c \in Conns |-> 0]

Init == ServerInit /\ NdcOff /\ ToolsOff /\ GetOff

\* A request whose generator ends after yielding one chunk and before any
\* message is dispatched.
OneFrame(c, kind, chunk) ==
    /\ pc[c] \in {"idle", "done"}
    /\ pc' = [pc EXCEPT ![c] = "done"]
    /\ body' = [body EXCEPT ![c] = kind]
    /\ messages_len' = [messages_len EXCEPT ![c] = 0]
    /\ pos' = [pos EXCEPT ![c] = 0]
    /\ pending' = [pending EXCEPT ![c] = NoMessage]
    /\ frame' = [frame EXCEPT ![c] = chunk]
    /\ nframes' = [nframes EXCEPT ![c] = 1]
    /\ UNCHANGED <<mcp_server, ndc_vars, tool_vars, get_vars>>

\* POST /sse with an empty body: one ping.
PostEmpty(c) == OneFrame(c, "empty", Ping)

\* POST /sse with bytes that are not UTF-8: body.decode() raises
\* UnicodeDecodeError, which the outer except clause reports.
PostUndecodable(c) == OneFrame(c, "undecodable", ErrorNoId(-32603))

\* POST /sse with text that json.loads rejects.
PostInvalidJson(c) == OneFrame(c, "invalid_json", ErrorNoId(-32700))

\* POST /sse with valid JSON, parsed into the list messages: a body that
\* does not start with "[" is a list of one value, an array body is the
\* list of its k elements.
PostMessages(c) ==
    /\ pc[c] \in {"idle", "done"}
    /\ \E k \in 0..MaxBatch :
          /\ messages_len' = [messages_len EXCEPT ![c] = k]
          /\ pc' = [pc EXCEPT ![c] = IF k = 0 THEN "done" ELSE "loop"]
    /\ body' = [body EXCEPT ![c] = "json"]
    /\ pos' = [pos EXCEPT ![c] = 0]
    /\ pending' = [pending EXCEPT ![c] = NoMessage]
    /\ frame' = [frame EXCEPT ![c] = NoFrame]
    /\ nframes' = [nframes EXCEPT ![c] = 0]
    /\ UNCHANGED <<mcp_server, ndc_vars, tool_vars, get_vars>>

\* Mutant: the generator returns after its first chunk, as the empty-body
\* branch does.
AfterYield_first_only(c, p) == "done"

\* The generator's position after the chunk of message number p is yielded.
AfterYield(c, p) == IF p = messages_len[c] THEN "done" ELSE "loop"

\* One iteration of the loop of generate_sse on the message m, up to its
\* yield, to the generator's end in the outer except clause, or to the
\* suspension of handle_message on the upstream request.
Dispatch(c, m) ==
    LET h == handle_message(mcp_server, m)
    IN  /\ pc[c] = "loop"
        /\ pos[c] < messages_len[c]
        /\ pos' = [pos EXCEPT ![c] = @ + 1]
        /\ mcp_server' = h.self
        /\ IF h.outcome = "return"
           THEN /\ frame' = [frame EXCEPT ![c] =
                                IF h.response # ResponseNone THEN h.response ELSE Ack]
                /\ nframes' = [nframes EXCEPT ![c] = @ + 1]
                /\ pc' = [pc EXCEPT ![c] = AfterYield(c, pos[c] + 1)]
                /\ UNCHANGED pending
           ELSE IF h.outcome = "raise"
           THEN /\ frame' = [frame EXCEPT ![c] = ErrorNoId(-32603)]
                /\ nframes' = [nframes EXCEPT ![c] = @ + 1]
                /\ pc' = [pc EXCEPT ![c] = "done"]
                /\ UNCHANGED pending
           ELSE /\ pc' = [pc EXCEPT ![c] = "upstream"]
                /\ pending' = [pending EXCEPT ![c] = m]
                /\ frame' = [frame EXCEPT ![c] = NoFrame]
                /\ UNCHANGED nframes
        /\ UNCHANGED <<body, messages_len, ndc_vars, tool_vars, get_vars>>

ProcessMessage(c) ==
    \E m \in JsonValues : m.id \in {Absent, ClientId(c)} /\ Dispatch(c, m)

\* The upstream answers the suspended tools/call:
\* handle_message returns and its response is yielded.
Resume(c, upstream) ==
    /\ pc[c] = "upstream"
    /\ frame' = [frame EXCEPT ![c] = handle_message_resume(pending[c], upstream)]
    /\ nframes' = [nframes EXCEPT ![c] = @ + 1]
    /\ pc' = [pc EXCEPT ![c] = AfterYield(c, pos[c])]
    /\ pending' = [pending EXCEPT ![c] = NoMessage]
    /\ UNCHANGED <<mcp_server, body, messages_len, pos, ndc_vars, tool_vars, get_vars>>

UpstreamReply(c) == \E upstream \in UpstreamOutcomes : Resume(c, upstream)

Next ==
    \E c \in Conns :
        \/ PostEmpty(c)
        \/ PostUndecodable(c)
        \/ PostInvalidJson(c)
        \/ PostMessages(c)
        \/ ProcessMessage(c)
        \/ UpstreamReply(c)

Spec == Init /\ [][Next]_vars

TypeOK ==
    /\ mcp_server.initialized \in BOOLEAN
    /\ \A c \in Conns : pc[c] \in {"idle", "loop", "upstream", "done"}
    /\ \A c \in Conns : pos[c] <= messages_len[c] /\ messages_len[c] <= MaxBatch

\* ------------------------------------------- _normalize_ndc on its inputs
InitNdc ==
    /\ ServerInit
    /\ ToolsOff
    /\ GetOff
    /\ npc = "input"
    /\ ndc_input \in NdcInputs
    /\ formats = << >>
    /\ again = << >>

\* formats = _normalize_ndc(ndc_input)
Normalize ==
    /\ npc = "input"
    /\ formats' = _normalize_ndc(ndc_input)
    /\ npc' = "normalized"
    /\ UNCHANGED <<server_vars, tool_vars, get_vars, ndc_input, again>>

\* The first candidate is normalized once more.
NormalizeAgain ==
    /\ npc = "normalized"
    /\ formats # << >>
    /\ again' = _normalize_ndc(formats[1])
    /\ npc' = "again"
    /\ UNCHANGED <<server_vars, tool_vars, get_vars, ndc_input, formats>>

NextNdc == Normalize \/ NormalizeAgain

SpecNdc == InitNdc /\ [][NextNdc]_vars

\* ------------------------------------------------------------ tool calls
InitTools ==
    /\ ServerInit
    /\ NdcOff
    /\ GetOff
    /\ tpc = "idle"
    /\ tcall = NoCall
    /\ request = NoRequest
    /\ tstatus = "none"
    /\ tresult = "none"

\* A FastMCP tool is called: it builds the params and sends the GET.
InvokeFastMcp ==
    /\ tpc = "idle"
    /\ \E t \in FastMcpTools : \E a \in FastMcpArgs :
          /\ tcall' = [tool |-> t, args |-> a]
          /\ request' = fastmcp_params(a)
    /\ tpc' = "awaiting"
    /\ tstatus' = "none"
    /\ tresult' = "none"
    /\ UNCHANGED <<server_vars, ndc_vars, get_vars>>

\* MCPServer.get_drug_indications is called: it returns at once when the
\* stripped drug name is empty, else it builds the params and sends the GET.
InvokeMcpServer ==
    /\ tpc = "idle"
    /\ \E a \in McpServerArgs :
          /\ tcall' = [tool |-> McpServerTool, args |-> a]
          /\ IF strip(a.drug_name) = << >>
             THEN /\ request' = NoRequest
                  /\ tpc' = "returned"
                  /\ tresult' = "Error: drug_name parameter is required"
             ELSE /\ request' = mcp_params(a)
                  /\ tpc' = "awaiting"
                  /\ tresult' = "none"
    /\ tstatus' = "none"
    /\ UNCHANGED <<server_vars, ndc_vars, get_vars>>

\* The upstream answers and the tool returns (or raises).
ToolReturn ==
    /\ tpc = "awaiting"
    /\ \E upstream \in UpstreamOutcomes :
          /\ tstatus' = upstream
          /\ tresult' = IF tcall.tool \in FastMcpTools
                        THEN fetch_openfda(upstream)
                        ELSE get_drug_indications_finish(tcall.args, upstream).text
    /\ tpc' = "returned"
    /\ UNCHANGED <<server_vars, ndc_vars, get_vars, tcall, request>>

\* The server is ready for the next call.
ToolDone ==
    /\ tpc = "returned"
    /\ tpc' = "idle"
    /\ tcall' = NoCall
    /\ request' = NoRequest
    /\ tstatus' = "none"
    /\ tresult' = "none"
    /\ UNCHANGED <<server_vars, ndc_vars, get_vars>>

NextTools == InvokeFastMcp \/ InvokeMcpServer \/ ToolReturn \/ ToolDone

SpecTools == InitTools /\ [][NextTools]_vars

\* ------------------------------------------------- batches of objects
\* One iteration of the loop on a message that is a JSON object.
ProcessObject(c) ==
    \E m \in ObjectMessages : m.id \in {Absent, ClientId(c)} /\ Dispatch(c, m)

\* POST /sse whose body is empty or holds JSON objects only.
NextBatch ==
    \E c \in Conns :
        \/ PostEmpty(c)
        \/ PostMessages(c)
        \/ ProcessObject(c)
        \/ UpstreamReply(c)

SpecBatch == Init /\ [][NextBatch]_vars

\* ------------------------------------------------------------- GET /sse
\* range(5)
PingCount == 5

\* {'type': 'connection', 'status': 'connected', 'server': ...}; it has no
\* count, which 0 stands for.
ConnectionFrame ==
    [type |-> "connection", status |-> "connected",
     server |-> "OpenFDA MCP Server", count |-> 0]

\* {'type': 'ping', 'count': count}
PingFrame(count) ==
    [type |-> "ping", status |-> Absent, server |-> Absent, count |-> count]

\* Mutant: the pings are numbered with the loop variable itself.
ping_count_from_zero(i) == i

\* 'count': i + 1
ping_count(i) == i + 1

InitGet ==
    /\ ServerInit
    /\ NdcOff
    /\ ToolsOff
    /\ gpc = [g \in GetConns |-> "idle"]
    /\ gi = [g \in GetConns |-> 0]
    /\ gframes = [g \in GetConns |-> << >>]

\* GET /sse: generate_test_sse yields the connection event, enters the loop
\* and sleeps.
OpenGet(g) ==
    /\ gpc[g] \in {"idle", "closed"}
    /\ gframes' = [gframes EXCEPT ![g] = << ConnectionFrame >>]
    /\ gi' = [gi EXCEPT ![g] = 0]
    /\ gpc' = [gpc EXCEPT ![g] = "sleeping"]
    /\ UNCHANGED <<server_vars, ndc_vars, tool_vars>>

\* asyncio.sleep(1) is over: the ping of this iteration is yielded and the
\* loop goes on to its next value, or ends with the generator.
SleepDone(g) ==
    /\ gpc[g] = "sleeping"
    /\ gframes' = [gframes EXCEPT ![g] = Append(@, PingFrame(ping_count(gi[g])))]
    /\ gi' = [gi EXCEPT ![g] = @ + 1]
    /\ gpc' = [gpc EXCEPT ![g] = IF gi[g] + 1 < PingCount THEN "sleeping" ELSE "closed"]
    /\ UNCHANGED <<server_vars, ndc_vars, tool_vars>>

\* The POST traffic of a connection that goes on beside the GET streams.
PostTraffic ==
    \/ PostMessages("A")
    \/ ProcessObject("A")
    \/ UpstreamReply("A")

NextGet ==
    \/ \E g \in GetConns : OpenGet(g) \/ SleepDone(g)
    \/ PostTraffic

SpecGet == InitGet /\ [][NextGet]_vars

\* The event loop wakes every sleeping generator after its second.
SpecGetLive == SpecGet /\ \A g \in GetConns : WF_vars(SleepDone(g))

\* ---------------------------------------------------------------- claims
\* The messages whose handling ends in the except clause of handle_message:
\* a value without .get, params or arguments without .get, a drug_name
\* without .strip.
RaisesException(m) ==
    \/ ~m.isdict
    \/ /\ m.method = "tools/call"
       /\ \/ m.params.kind = None
          \/ /\ m.params.kind = "dict"
             /\ m.params.name = "get_drug_indications"
             /\ \/ m.params.arguments.kind = None
                \/ m.params.arguments.drug_name = "nonstring"

\* A tools/call whose params name no registered tool, or a method outside
\* the method table.
UnknownToolOrMethod(m) ==
    /\ m.isdict
    /\ \/ m.method \notin Methods
       \/ /\ m.method = "tools/call"
          /\ m.params.kind \in {Absent, "dict"}
          /\ m.params.name # "get_drug_indications"

\* Connection c takes a message from its list in this step.
Takes(c) == pos'[c] = pos[c] + 1

Notifications == {m \in ObjectMessages : m.id = Absent}
Requests == {m \in ObjectMessages : m.id \in Ids}
InitializeMessages == {m \in ObjectMessages : m.method = "initialize"}
ToolsListMessages == {m \in ObjectMessages : m.method = "tools/list"}
UnknownRequests == {m \in Requests : UnknownToolOrMethod(m)}
RaisingMessages == {m \in JsonValues : RaisesException(m)}

\* C1: a message without an id never gets a JSON-RPC response object,
\* whatever its method: the chunk yielded for it is not an envelope.
C1_NotificationNoResponse ==
    [][\A c \in Conns : Takes(c) => \A m \in Notifications :
          Dispatch(c, m) => frame'[c].kind # "response"]_vars

\* C2: a request with an id for an unregistered tool or an unknown method
\* is answered by an error -32601 under the request's id, without result,
\* and the upstream is not called.
C2_UnknownIsMethodNotFound ==
    [][\A c \in Conns : Takes(c) => \A m \in UnknownRequests :
          Dispatch(c, m)
              => /\ frame'[c].kind = "response"
                 /\ "error" \in frame'[c].members
                 /\ "result" \notin frame'[c].members
                 /\ frame'[c].code = -32601
                 /\ "id" \in frame'[c].members
                 /\ frame'[c].id = m.id
                 /\ pc'[c] # "upstream"]_vars

C2_Witness ==
    \E c \in Conns :
        /\ pc[c] = "done"
        /\ frame[c].code = -32601
        /\ frame[c].id \in Ids

\* C3: the initialized flag starts false, never goes from true to false,
\* and goes from false to true only in a step that handles an initialize.
C3_InitializedMonotonic ==
    /\ ~mcp_server.initialized
    /\ [][/\ mcp_server.initialized => mcp_server'.initialized
          /\ (~mcp_server.initialized /\ mcp_server'.initialized)
                => \E c \in Conns : \E m \in InitializeMessages : Dispatch(c, m)]_vars

C3_Witness ==
    /\ mcp_server.initialized
    /\ \E c \in Conns :
          /\ pc[c] = "done"
          /\ messages_len[c] = 2
          /\ frame[c].code \in {-32601, -32603}

\* The MCPServer object the generator of connection c dispatches to.
server_of(c) == mcp_server

\* C4: an initialize handled for one connection changes nothing of the
\* state that the handler of another open connection observes.
C4_StatePerConnection ==
    [][\A a \in Conns : Takes(a) => \A m \in InitializeMessages :
          Dispatch(a, m)
              => \A b \in Conns \ {a} :
                    pc[b] \in {"loop", "upstream"} => server_of(b)' = server_of(b)]_vars

\* C5: tools/list is answered, before and after initialize, by a result
\* holding the one tool list that does not depend on the server state, and
\* it leaves the server state alone.
C5_ToolsListSame ==
    [][\A c \in Conns : Takes(c) => \A m \in ToolsListMessages :
          Dispatch(c, m)
              => /\ frame'[c].kind = "response"
                 /\ "result" \in frame'[c].members
                 /\ Len(frame'[c].result.tools) = 1
                 /\ \A s \in ServerStates : frame'[c].result.tools = get_tools(s)
                 /\ mcp_server' = mcp_server]_vars

C5_Witness ==
    /\ ~mcp_server.initialized
    /\ \E c \in Conns : frame[c].result.kind = "tools"

\* C6: while the channel is uninitialized, a request other than initialize
\* is answered by an error and reaches neither tool handler nor upstream.
C6_RejectedBeforeInitialize ==
    [][\A c \in Conns : Takes(c) => \A m \in Requests \ InitializeMessages :
          (~mcp_server.initialized /\ Dispatch(c, m))
              => /\ "error" \in frame'[c].members
                 /\ frame'[c].result.kind # "content"
                 /\ pc'[c] # "upstream"]_vars

\* C7: initialize, in any channel state, is answered by a result (never an
\* error) under the request's id with the fixed protocol version,
\* capabilities and server identity, stores the params of this call as
\* client info and leaves the channel initialized.
C7_InitializeIdempotent ==
    [][\A c \in Conns : Takes(c) => \A m \in InitializeMessages :
          Dispatch(c, m)
              => /\ frame'[c].kind = "response"
                 /\ frame'[c].members = {"jsonrpc", "id", "result"}
                 /\ frame'[c].id = (IF m.id = Absent THEN None ELSE m.id)
                 /\ frame'[c].result.protocolVersion = "2024-11-05"
                 /\ frame'[c].result.capabilities = {"tools"}
                 /\ frame'[c].result.serverInfo = "openfda-mcp-server/1.0.0"
                 /\ mcp_server'.initialized
                 /\ mcp_server'.client_info.kind = "dict"
                 /\ mcp_server'.client_info.name = m.params.name]_vars

\* Two requests in progress have both just been answered for initialize:
\* the second of them was handled on an initialized channel.
C7_Witness ==
    /\ \A c \in Conns : frame[c].result.kind = "initialize"
    /\ mcp_server.initialized
    /\ mcp_server.client_info = ClientParams

\* C8: a message that fails is the only one affected: the server state is
\* unchanged and the loop goes on with the messages that follow it.
C8_FailureConfined ==
    [][\A c \in Conns : Takes(c) => \A m \in RaisingMessages :
          Dispatch(c, m)
              => /\ mcp_server' = mcp_server
                 /\ pos'[c] < messages_len[c] => pc'[c] = "loop"]_vars

\* C9: a message whose handling raises is answered by an error -32603
\* without result, under the id of the message when it has one.
C9_InternalErrorKeepsId ==
    [][\A c \in Conns : Takes(c) => \A m \in RaisingMessages :
          Dispatch(c, m)
              => /\ frame'[c].kind = "response"
                 /\ "error" \in frame'[c].members
                 /\ "result" \notin frame'[c].members
                 /\ frame'[c].code = -32603
                 /\ m.id \in Ids => ("id" \in frame'[c].members /\ frame'[c].id = m.id)]_vars

C9_Witness ==
    \E c \in Conns :
        /\ frame[c].code = -32603
        /\ "id" \in frame[c].members
        /\ frame[c].id \in Ids

\* C10: a body that is not valid JSON is answered by exactly one chunk, an
\* error -32700 without id member, and none of its messages is dispatched.
C10_ParseErrorOnly ==
    \A c \in Conns :
        body[c] \in {"invalid_json", "undecodable"}
            => /\ nframes[c] = 1
               /\ frame[c].kind = "response"
               /\ frame[c].code = -32700
               /\ "id" \notin frame[c].members
               /\ pos[c] = 0

\* t is x without its leading and trailing blanks.
IsTrimOf(t, x) ==
    \E i \in 1..(Len(x) + 1) : \E j \in 0..Len(x) :
        /\ t = SubSeq(x, i, j)
        /\ \A k \in 1..Len(x) : (k < i \/ k > j) => x[k] = " "
        /\ t # << >> => (t[1] # " " /\ t[Len(t)] # " ")

\* The digits of x, in order, written without the model's helper.
RECURSIVE DigitCore(_)
DigitCore(x) ==
    IF x = << >> THEN << >>
    ELSE IF Head(x) \in Digits THEN <<Head(x)>> \o DigitCore(Tail(x))
    ELSE DigitCore(Tail(x))

HasBlankOnly(x) == \A k \in 1..Len(x) : x[k] = " "

Normalized == npc \in {"normalized", "again"}

\* The scenario input "0002-1433-80".
ScenarioNdc == <<"0","0","0","2","-","1","4","3","3","-","8","0">>

\* The tool of the call under way is one of the FastMCP tools.
FastMcpCall == request.sent /\ tcall.tool \in FastMcpTools

\* The tool of the call under way is MCPServer.get_drug_indications.
McpServerCall == request.sent /\ tcall.tool = McpServerTool

\* C11: when the upstream answers 404, every tool handler returns the
\* zero-result outcome (the empty list, or the "no data found" text), never
\* an error payload or an exception.
C11_NotFoundIsZeroResult ==
    (tpc = "returned" /\ tstatus = "status_404")
        => tresult \in {"empty_list", "No FDA labeling data found"}

\* C12: the limit sent upstream is within 1..10 whatever integer the caller
\* gave, in every tool handler, and a missing limit sends 3.
C12_LimitWithinRange ==
    request.sent
        => /\ request.limit \in 1..10
           /\ ~tcall.args.limit.given => request.limit = 3

PresentFilter(x) == x.value # NoneStr /\ x.value # << >>

\* The manufacturer, dosage form and route filters of a that are set.
SuppliedSimple(a) ==
    SelectSeq(<< [field |-> "openfda.manufacturer_name", value |-> a.manufacturer],
                 [field |-> "openfda.dosage_form", value |-> a.dosage_form],
                 [field |-> "openfda.route", value |-> a.route] >>,
              PresentFilter)

IsNdcClause(part, ndc) ==
    /\ part.paren
    /\ Len(part.atoms) >= 1
    /\ \A i \in 1..Len(part.atoms) :
          part.atoms[i].field = "openfda.product_ndc" /\ ~part.atoms[i].exact
    /\ IsTrimOf(part.atoms[1].value, ndc)

IsDrugClause(part, drug, exact) ==
    /\ part.paren
    /\ Len(part.atoms) = 3
    /\ \A i \in 1..3 :
          part.atoms[i] = [field |-> DrugFields[i], exact |-> exact, value |-> drug]

IsSimpleAtom(part, x) ==
    /\ ~part.paren
    /\ part.atoms = << [field |-> x.field, exact |-> FALSE, value |-> x.value] >>

\* C13: with both ndc and drug_name set, _build_search returns the NDC
\* clause AND the drug clause, both parenthesized, then the manufacturer,
\* dosage form and route atoms that are present, in that order, and
\* nothing else.
C13_NdcAndDrugThenFilters ==
    (FastMcpCall /\ truthy(tcall.args.ndc) /\ truthy(tcall.args.drug_name))
        => LET a == tcall.args
               q == request.search
               e == SuppliedSimple(a)
           IN  /\ Len(q) = 2 + Len(e)
               /\ IsNdcClause(q[1], a.ndc)
               /\ IsDrugClause(q[2], a.drug_name, a.exact_match)
               /\ \A i \in 1..Len(e) : IsSimpleAtom(q[2 + i], e[i])

C13_Witness ==
    /\ FastMcpCall
    /\ tcall.args.ndc = ScenarioNdc
    /\ tcall.args.drug_name = Aspirin
    /\ tcall.args.manufacturer = Bayer
    /\ tcall.args.dosage_form = NoneStr
    /\ tcall.args.route = Oral
    /\ Len(request.search) = 4
    /\ request.search[4].atoms[1].field = "openfda.route"

NoFieldSet(a) ==
    \A v \in {a.drug_name, a.manufacturer, a.dosage_form, a.route, a.ndc} :
        v = NoneStr \/ v = << >>

\* C14: _build_search returns the wildcard "*:*" when no field is set, and
\* only then.
C14_WildcardIffNoField ==
    FastMcpCall => (request.search = Wildcard <=> NoFieldSet(tcall.args))

C14_Witness ==
    /\ FastMcpCall
    /\ tcall.args.drug_name = << >>
    /\ tcall.args.ndc = NoneStr
    /\ NoFieldSet(tcall.args)
    /\ request.search = Wildcard

OnlyDrugSet(a) ==
    /\ strip(a.drug_name) # << >>
    /\ a.drug_name # NoneStr
    /\ \A v \in {a.manufacturer, a.dosage_form, a.route, a.ndc} :
          v = NoneStr \/ v = << >>

\* The name the atoms carry: MCPServer.get_drug_indications trims it first.
SearchedName(call) ==
    IF call.tool = McpServerTool THEN strip(call.args.drug_name)
    ELSE call.args.drug_name

\* C15: with only drug_name set and exact_match false, the search expression
\* is exactly three OR-joined atoms for the name, one for each of brand_name,
\* generic_name and substance_name, none with the .exact suffix, in
\* _build_search and in MCPServer.get_drug_indications.
C15_ThreeNonExactAtoms ==
    (request.sent /\ OnlyDrugSet(tcall.args) /\ ~tcall.args.exact_match)
        => LET q == request.search
           IN  /\ Len(q) = 1
               /\ Len(q[1].atoms) = 3
               /\ \A i \in 1..3 :
                     q[1].atoms[i] = [field |-> DrugFields[i], exact |-> FALSE,
                                      value |-> SearchedName(tcall)]

C15_Witness ==
    /\ McpServerCall
    /\ tcall.args.drug_name = PaddedAspirin
    /\ ~tcall.args.exact_match
    /\ Len(request.search[1].atoms) = 3
    /\ request.search[1].atoms[3] =
          [field |-> "openfda.substance_name", exact |-> FALSE, value |-> Aspirin]

\* C16: whenever drug_name is present and exact_match is true, the drug
\* clause has one atom for each of the three fields and every atom uses the
\* .exact suffix, in _build_search (with or without an NDC filter) and in
\* MCPServer.get_drug_indications.
C16_ThreeExactAtoms ==
    (request.sent /\ truthy(tcall.args.drug_name) /\ tcall.args.exact_match)
        => LET q == request.search
               k == IF truthy(tcall.args.ndc) THEN 2 ELSE 1
           IN  /\ Len(q) >= k
               /\ Len(q[k].atoms) = 3
               /\ \A i \in 1..3 :
                     q[k].atoms[i] = [field |-> DrugFields[i], exact |-> TRUE,
                                      value |-> SearchedName(tcall)]

\* C17: for an input that is not blank the first candidate is the trimmed
\* input, normalizing that candidate again gives the same first candidate,
\* and "0002-1433-80" gives itself followed by its digits "0002143380".
C17_FirstCandidateIsTrim ==
    /\ (Normalized /\ ~HasBlankOnly(ndc_input))
          => /\ formats # << >>
             /\ IsTrimOf(formats[1], ndc_input)
    /\ (npc = "again" /\ ~HasBlankOnly(ndc_input))
          => /\ again # << >>
             /\ again[1] = formats[1]
    /\ (Normalized /\ ndc_input = ScenarioNdc)
          => formats = <<ScenarioNdc, <<"0","0","0","2","1","4","3","3","8","0">> >>

C17_Witness ==
    /\ npc = "again"
    /\ ndc_input = <<" ","1","2","3","4","5","6","7","8","9","0"," ">>
    /\ again[1] = <<"1","2","3","4","5","6","7","8","9","0">>

\* C18: a returned list has at most three candidates, no two of them equal.
C18_AtMostThreeDistinct ==
    \A l \in {formats, again} :
        /\ Len(l) <= 3
        /\ \A i \in 1..Len(l) : \A j \in 1..Len(l) : i # j => l[i] # l[j]

C18_Witness ==
    /\ Normalized
    /\ Len(DigitCore(ndc_input)) = 10
    /\ Len(formats) = 2

\* C19: an input that is blank gives no candidate, and no candidate is ever
\* the empty string.
C19_NoEmptyCandidate ==
    Normalized =>
        /\ HasBlankOnly(ndc_input) => formats = << >>
        /\ \A i \in 1..Len(formats) : formats[i] # << >>

\* C20 as stated: an input whose digit core has neither 10 nor 11 digits
\* gives the trimmed input and nothing else.
C20_OnlyLiteral ==
    (Normalized /\ ~HasBlankOnly(ndc_input)
        /\ Len(DigitCore(ndc_input)) \notin {10, 11})
      => /\ Len(formats) = 1
         /\ IsTrimOf(formats[1], ndc_input)

\* C20 amended: for such an input no hyphen is re-inserted; the result is
\* the trimmed input alone, except that an input with a hyphen whose digit
\* core has at least 9 digits gets that digit core as second candidate.
C20_LiteralAndDigitCore ==
    (Normalized /\ ~HasBlankOnly(ndc_input)
        /\ Len(DigitCore(ndc_input)) \notin {10, 11})
      => /\ IsTrimOf(formats[1], ndc_input)
         /\ IF (\E k \in 1..Len(ndc_input) : ndc_input[k] = "-")
                 /\ Len(DigitCore(ndc_input)) >= 9
            THEN formats = <<formats[1], DigitCore(ndc_input)>>
            ELSE Len(formats) = 1

C20_Witness ==
    /\ Normalized
    /\ ndc_input = <<"1","2","3","4","-","5","6","7","-","8","9">>
    /\ formats = <<ndc_input, <<"1","2","3","4","5","6","7","8","9">> >>

\* The digits of core with hyphens after the first a and the next b of them.
Layout(core, a, b) ==
    SubSeq(core, 1, a) \o <<"-">> \o SubSeq(core, a + 1, a + b) \o <<"-">>
        \o SubSeq(core, a + b + 1, Len(core))

\* 4-3-3, 5-3-2, 5-2-3 for 10 digits; 5-4-2, 5-3-3, 4-4-3 for 11 digits.
StandardLayouts(core) ==
    IF Len(core) = 10
    THEN {Layout(core, 4, 3), Layout(core, 5, 3), Layout(core, 5, 2)}
    ELSE {Layout(core, 5, 4), Layout(core, 5, 3), Layout(core, 4, 4)}

\* C21: for an input with a digit core of 10 or 11 digits, every candidate
\* other than the trimmed literal is the core in one of the standard
\* layouts, and there is such a candidate when a layout differs from the
\* literal.
C21_StandardLayoutsOnly ==
    (Normalized /\ Len(DigitCore(ndc_input)) \in {10, 11})
        => LET core == DigitCore(ndc_input)
               literal == strip(ndc_input)
           IN  /\ \A i \in 1..Len(formats) :
                     formats[i] # literal => formats[i] \in StandardLayouts(core)
               /\ (\E l \in StandardLayouts(core) : l # literal)
                     => \E i \in 1..Len(formats) :
                           formats[i] # literal /\ formats[i] \in StandardLayouts(core)

\* C21 (amended): for an input with a digit core of 10 or 11 digits the
\* result is the trimmed literal followed by exactly one more candidate:
\* the core split 5-4-1 (10 digits) or 5-4-2 (11 digits) when the input has
\* no hyphen, and the bare digit core when it has one.
C21_MostCommonLayout ==
    (Normalized /\ Len(DigitCore(ndc_input)) \in {10, 11})
        => LET core == DigitCore(ndc_input)
           IN  /\ Len(formats) = 2
               /\ IsTrimOf(formats[1], ndc_input)
               /\ formats[2] = IF \E k \in 1..Len(ndc_input) : ndc_input[k] = "-"
                               THEN core
                               ELSE Layout(core, 5, 4)

C21_Witness ==
    /\ Normalized
    /\ ndc_input = <<"1","2","3","4","5","6","7","8","9","0","1">>
    /\ formats = << ndc_input,
                    <<"1","2","3","4","5","-","6","7","8","9","-","0","1">> >>

\* The id a response to m carries: null when m has none.
ResponseId(m) == IF m.id = Absent THEN None ELSE m.id

\* The chunks yielded so far are those of the messages taken so far, one
\* each; the message suspended on the upstream has none yet.
OneFramePerMessage(c) ==
    /\ pos[c] <= messages_len[c]
    /\ nframes[c] = IF pc[c] = "upstream" THEN pos[c] - 1 ELSE pos[c]
    /\ pc[c] = "done" => nframes[c] = messages_len[c]

\* C22: a batch of n JSON-RPC objects is processed in array order, each
\* message handled to its chunk (its upstream call included) before the
\* next is taken; chunk number k is the response to message number k, or an
\* ack when the handler returned none, so that n chunks are emitted; an
\* empty body emits one ping and dispatches nothing.
C22_BatchInOrder ==
    /\ [](\A c \in Conns : body[c] = "json" => OneFramePerMessage(c))
    /\ [](\A c \in Conns :
            body[c] = "empty"
                => /\ nframes[c] = 1 /\ frame[c] = Ping
                   /\ pos[c] = 0 /\ pc[c] = "done" /\ pending[c] = NoMessage)
    /\ [][\A c \in Conns :
            (body'[c] = "empty" /\ body[c] # "empty") => mcp_server' = mcp_server]_vars
    /\ [][\A c \in Conns : Takes(c) =>
            /\ pc[c] = "loop"
            /\ nframes[c] = pos[c]
            /\ \A m \in ObjectMessages :
                  Dispatch(c, m)
                      => \/ /\ pc'[c] = "upstream"
                            /\ pending'[c] = m
                            /\ nframes'[c] = nframes[c]
                         \/ /\ pc'[c] # "upstream"
                            /\ nframes'[c] = pos'[c]
                            /\ \/ /\ frame'[c].kind = "response"
                                  /\ frame'[c].id = ResponseId(m)
                               \/ /\ frame'[c] = Ack
                                  /\ m.method = "notifications/initialized"]_vars
    /\ [][\A c \in Conns :
            (pc[c] = "upstream" /\ pc'[c] # "upstream")
                => /\ pos'[c] = pos[c]
                   /\ nframes'[c] = pos[c]
                   /\ frame'[c].kind = "response"
                   /\ frame'[c].id = ResponseId(pending[c])]_vars

C22_Witness ==
    \E c \in Conns :
        /\ body[c] = "json"
        /\ pc[c] = "done"
        /\ messages_len[c] = 2
        /\ nframes[c] = 2
        /\ frame[c] = Ack

\* The connection event and the pings 1 to 5.
WholeStream ==
    << ConnectionFrame >>
        \o [n \in 1..5 |-> [type |-> "ping", status |-> Absent, server |-> Absent,
                            count |-> n]]

\* C23: a GET stream yields the connection event first, then the pings
\* numbered 1, 2, ... in order; it ends by itself after exactly 5 pings; its
\* steps dispatch no message and leave the server's state as it is.
C23_GetStreamPingsAndEnds ==
    /\ [](\A g \in GetConns :
            gpc[g] # "idle"
                => /\ Len(gframes[g]) \in 1..6
                   /\ gframes[g] = SubSeq(WholeStream, 1, Len(gframes[g]))
                   /\ gpc[g] = "closed" <=> Len(gframes[g]) = 6)
    /\ [][\A g \in GetConns :
            gframes'[g] # gframes[g]
                => /\ mcp_server' = mcp_server
                   /\ pos' = pos
                   /\ pending' = pending
                   /\ \/ gframes[g] \in {<< >>, WholeStream} /\ Len(gframes'[g]) = 1
                      \/ Len(gframes'[g]) = Len(gframes[g]) + 1]_vars
    /\ \A g \in GetConns : [](gpc[g] = "sleeping" => <>(gpc[g] = "closed"))

C23_Witness ==
    /\ gpc["G1"] = "closed"
    /\ Len(gframes["G1"]) = 6
    /\ gframes["G1"][6].count = 5
    /\ gpc["G2"] = "sleeping"
    /\ mcp_server.initialized
====
